---- MODULE Spec2Model ----
(***************************************************************************)
(* Model of terraform-provider-putio: the default plan modifier, the       *)
(* provider's Configure, and the rss_feed resource's Create / Read /       *)
(* Update / Delete / ImportState handlers talking to the put.io REST       *)
(* service.                                                                *)
(***************************************************************************)
EXTENDS Integers, Sequences, FiniteSets, TLC

VARIABLES
    modReq,        \* ModifyAttributePlanRequest handed to a default modifier
    modResp,       \* ModifyAttributePlanResponse it fills in
    provReq,       \* ConfigureProviderRequest + environment + remote verdict
    prov,          \* the provider struct: client, configured
    provResp,      \* ConfigureProviderResponse + calls made to the remote
    remote,        \* the put.io service: feed id -> stored feed
    config,        \* the practitioner's declared configuration
    plan,          \* the planned record handed to Create / Update
    state,         \* the tracked state of putio_rss_feed
    last           \* outcome of the last handler invocation

vars == <<modReq, modResp, provReq, prov, provResp,
          remote, config, plan, state, last>>

modVars  == <<modReq, modResp>>
provVars == <<provReq, prov, provResp>>
feedVars == <<remote, config, plan, state, last>>

----------------------------------------------------------------------------
(* Bounds *)

\* feeds the remote service can hold (ids 1..MaxFeeds)
MaxFeeds == 2

\* int64 literals a default modifier is parameterised with: 0..MaxInt
MaxInt == 2

----------------------------------------------------------------------------
(* Attribute values: types.Int64 / types.Bool / types.String               *)
(* {Unknown, Null, Value}. Value is held in the field of its type (i, b or *)
(* s); a null or unknown value carries Go's zero Value.                    *)

Zero(t, k) == [t |-> t, k |-> k, i |-> 0, b |-> FALSE, s |-> ""]

\* types.Int64{Value: x}
Int64Value(x) == [Zero("int64", "known") EXCEPT !.i = x]

\* types.Bool{Value: x}
BoolValue(x) == [Zero("bool", "known") EXCEPT !.b = x]

\* types.String{Value: x}
StringValue(x) == [Zero("string", "known") EXCEPT !.s = x]

\* types.X{Null: true}
NullVal(t) == Zero(t, "null")

\* types.X{Unknown: true}
UnknownVal(t) == Zero(t, "unknown")

IntVals == 0..MaxInt

StrVals == {"", "a"}

AttrValues(t) ==
    {NullVal(t), UnknownVal(t)} \cup
    (CASE t = "int64" -> {Int64Value(x) : x \in IntVals}
       [] t = "bool"  -> {BoolValue(x) : x \in BOOLEAN}
       [] OTHER       -> {StringValue(x) : x \in StrVals})

AllAttrValues == AttrValues("int64") \cup AttrValues("bool") \cup AttrValues("string")

----------------------------------------------------------------------------
(* Default plan modifiers                                                  *)

\* tfsdk.ValueAs(ctx, req.AttributePlan, &target): fails when the value is
\* not of the target's type
ValueAsOk(t, val) == val.t = t

\* mutant: substitutes the default for every value that is not known
Int64ModifyNotKnown(m, req, resp) ==
    IF ~ValueAsOk("int64", req.AttributePlan)
    THEN [resp EXCEPT !.errs = @ + 1]
    ELSE IF req.AttributePlan.k = "known"
    THEN resp
    ELSE [resp EXCEPT !.AttributePlan = Int64Value(m.Default.i)]

\* int64DefaultModifier.Modify
Int64Modify(m, req, resp) ==
    IF ~ValueAsOk("int64", req.AttributePlan)
    THEN [resp EXCEPT !.errs = @ + 1]
    ELSE IF req.AttributePlan.k # "null"
    THEN resp
    ELSE [resp EXCEPT !.AttributePlan = Int64Value(m.Default.i)]

\* boolDefaultModifier.Modify
BoolModify(m, req, resp) ==
    IF ~ValueAsOk("bool", req.AttributePlan)
    THEN [resp EXCEPT !.errs = @ + 1]
    ELSE IF req.AttributePlan.k # "null"
    THEN resp
    ELSE [resp EXCEPT !.AttributePlan = BoolValue(m.Default.b)]

\* stringDefaultModifier.Modify
StringModify(m, req, resp) ==
    IF ~ValueAsOk("string", req.AttributePlan)
    THEN [resp EXCEPT !.errs = @ + 1]
    ELSE IF req.AttributePlan.k # "null"
    THEN resp
    ELSE [resp EXCEPT !.AttributePlan = StringValue(m.Default.s)]

\* In64Default / BoolDefault / StringDefault: the modifier and its literal
In64Default(d) == [t |-> "int64", Default |-> Int64Value(d)]

BoolDefault(d) == [t |-> "bool", Default |-> BoolValue(d)]

StringDefault(d) == [t |-> "string", Default |-> StringValue(d)]

Modify(m, req, resp) ==
    CASE m.t = "int64" -> Int64Modify(m, req, resp)
      [] m.t = "bool"  -> BoolModify(m, req, resp)
      [] OTHER         -> StringModify(m, req, resp)

\* the framework hands the modifier a response holding the incoming plan
NewModifyResponse(req) == [AttributePlan |-> req.AttributePlan, errs |-> 0]

Modifiers == {In64Default(d) : d \in IntVals}
             \cup {BoolDefault(d) : d \in BOOLEAN}
             \cup {StringDefault(d) : d \in StrVals}

ModRequests == [m : Modifiers, AttributePlan : AllAttrValues, done : {FALSE}]

ModInit ==
    /\ modReq \in ModRequests
    /\ modResp = NewModifyResponse(modReq)

\* the framework invokes the modifier once on the request
RunModify ==
    /\ ~modReq.done
    /\ modResp' = Modify(modReq.m, modReq, modResp)
    /\ modReq' = [modReq EXCEPT !.done = TRUE]

\* the framework moves on to another attribute
NextAttribute ==
    /\ modReq.done
    /\ modReq' \in ModRequests
    /\ modResp' = NewModifyResponse(modReq')

----------------------------------------------------------------------------
(* Provider.Configure                                                      *)

\* A Go string built from a literal: either the text itself or the text
\* wrapped in double quotes (what fmt's %q verb produces)
Raw(x) == [q |-> FALSE, s |-> x]

Quoted(x) == [q |-> TRUE, s |-> x]

\* types.String.String(): the human-readable rendering of the value, not
\* its Value field
StringOf(val) ==
    CASE val.k = "unknown" -> Raw("<unknown>")
      [] val.k = "null"    -> Raw("<null>")
      [] OTHER             -> Quoted(val.s)

\* token == ""
TokenIsEmpty(token) == ~token.q /\ token.s = ""

Tokens == {"", "tok", "old"}

NoClient == [set |-> FALSE, token |-> Raw("")]

\* New(version): client nil, configured false
NewProvider == [client |-> NoClient, configured |-> FALSE]

NewConfigureResponse == [errs |-> 0, validateCalls |-> 0, validated |-> 0]

ProvRequests ==
    [ oauth_token : {NullVal("string"), UnknownVal("string")}
                    \cup {StringValue(x) : x \in Tokens},
      env         : Tokens,       \* os.Getenv("PUTIO_OAUTH_TOKEN")
      decodeOk    : BOOLEAN,      \* req.Config.Get succeeds
      accepts     : BOOLEAN,      \* the remote's verdict on ValidateToken
      done        : {FALSE} ]

ProvInit ==
    /\ provReq \in ProvRequests
    /\ prov = NewProvider
    /\ provResp = NewConfigureResponse

\* provider.Configure
Configure ==
    /\ ~provReq.done
    /\ provReq' = [provReq EXCEPT !.done = TRUE]
    /\ IF ~provReq.decodeOk
       THEN /\ provResp' = [provResp EXCEPT !.errs = @ + 1]
            /\ prov' = prov
       ELSE LET token == IF provReq.oauth_token.k = "null"
                         THEN Raw(provReq.env)
                         ELSE StringOf(provReq.oauth_token)
            IN  IF TokenIsEmpty(token)
                THEN /\ provResp' = [provResp EXCEPT !.errs = @ + 1]
                     /\ prov' = prov
                ELSE IF ~provReq.accepts
                THEN /\ provResp' = [provResp EXCEPT !.errs = @ + 1,
                                                     !.validateCalls = @ + 1]
                     /\ prov' = prov
                ELSE /\ provResp' = [provResp EXCEPT !.validateCalls = @ + 1,
                                                     !.validated = @ + 1]
                     /\ prov' = [client |-> [set |-> TRUE, token |-> token],
                                 configured |-> TRUE]

\* the plugin runtime starts a new session: New(version) and a new request
NewSession ==
    /\ provReq.done
    /\ provReq' \in ProvRequests
    /\ prov' = NewProvider
    /\ provResp' = NewConfigureResponse

----------------------------------------------------------------------------
(* putio_rss_feed: schema and records                                      *)

Attrs == {"id", "title", "rss_source_url", "parent_dir_id",
          "delete_old_files", "keyword", "unwanted_keywords", "paused"}

OptAttrs == {"parent_dir_id", "delete_old_files", "unwanted_keywords", "paused"}

NoModifier == [t |-> "none", Default |-> NullVal("none")]

\* rssFeedResourceType.GetSchema
Schema ==
    [ id |-> [t |-> "string", computed |-> TRUE, useState |-> FALSE,
              default |-> NoModifier],
      title |-> [t |-> "string", computed |-> FALSE, useState |-> FALSE,
                 default |-> NoModifier],
      rss_source_url |-> [t |-> "string", computed |-> FALSE, useState |-> FALSE,
                          default |-> NoModifier],
      parent_dir_id |-> [t |-> "int64", computed |-> TRUE, useState |-> TRUE,
                         default |-> In64Default(0)],
      delete_old_files |-> [t |-> "bool", computed |-> TRUE, useState |-> TRUE,
                            default |-> BoolDefault(FALSE)],
      keyword |-> [t |-> "string", computed |-> FALSE, useState |-> FALSE,
                   default |-> NoModifier],
      unwanted_keywords |-> [t |-> "string", computed |-> TRUE, useState |-> FALSE,
                             default |-> StringDefault("")],
      paused |-> [t |-> "bool", computed |-> TRUE, useState |-> FALSE,
                  default |-> BoolDefault(FALSE)] ]

\* the declared default D of an optional attribute
DefaultOf(a) == Schema[a].default.Default

\* var data rssFeedResourceData: every field null
NullData == [a \in Attrs |-> NullVal(Schema[a].t)]

\* an absent configuration / plan / state decodes to all-null data
Absent == [present |-> FALSE, data |-> NullData]

Present(d) == [present |-> TRUE, data |-> d]

----------------------------------------------------------------------------
(* Decimal and boolean formatting                                          *)

Digit == <<"0", "1", "2", "3", "4", "5", "6", "7", "8", "9">>

RECURSIVE Itoa(_)
\* strconv.Itoa / strconv.FormatInt(v, 10)
Itoa(n) ==
    IF n < 0 THEN "-" \o Itoa(-n)
    ELSE IF n < 10 THEN Digit[n + 1]
    ELSE Itoa(n \div 10) \o Digit[(n % 10) + 1]

\* fmt.Sprintf("%t", b)
FormatBool(b) == IF b THEN "true" ELSE "false"

----------------------------------------------------------------------------
(* The remote service                                                      *)

FeedIds == 1..MaxFeeds

NoFeed == [exists |-> FALSE, id |-> 0, title |-> "", rss_source_url |-> "",
           parent_dir_id |-> 0, delete_old_files |-> FALSE, keyword |-> "",
           unwanted_keywords |-> "", paused |-> FALSE]

ParentDirs == {0, 7}

\* the service reads the form fields back into their JSON types
ParseInt(str) == CHOOSE n \in ParentDirs : Itoa(n) = str

ParseBool(str) == str = "true"

\* POST /v2/rss/create: the service stores the posted fields under a new id
ServerCreate(r, payload) ==
    LET feed == [exists |-> TRUE, id |-> r.next,
                 title |-> payload.title,
                 rss_source_url |-> payload.rss_source_url,
                 parent_dir_id |-> ParseInt(payload.parent_dir_id),
                 delete_old_files |-> ParseBool(payload.delete_old_files),
                 keyword |-> payload.keyword,
                 unwanted_keywords |-> payload.unwanted_keywords,
                 paused |-> ParseBool(payload.paused)]
    IN  [ok |-> TRUE, feed |-> feed,
         remote |-> [feeds |-> [r.feeds EXCEPT ![r.next] = feed],
                     next |-> r.next + 1]]

\* the stored feeds whose decimal id is the path segment (none for the
\* empty segment that a null or unknown identifier's Value gives)
Lookup(r, idStr) == {f \in FeedIds : r.feeds[f].exists /\ Itoa(f) = idStr}

\* GET /v2/rss/{id}: 2xx with the feed, or non-2xx when there is none
ServerGet(r, idStr) ==
    IF Lookup(r, idStr) = {}
    THEN [ok |-> FALSE, feed |-> NoFeed, remote |-> r]
    ELSE [ok |-> TRUE, feed |-> r.feeds[CHOOSE f \in Lookup(r, idStr) : TRUE],
          remote |-> r]

\* POST /v2/rss/{id}/delete: removes the feed, or non-2xx when there is none
ServerDelete(r, idStr) ==
    IF Lookup(r, idStr) = {}
    THEN [ok |-> FALSE, feed |-> NoFeed, remote |-> r]
    ELSE [ok |-> TRUE, feed |-> NoFeed,
          remote |-> [r EXCEPT !.feeds[CHOOSE f \in Lookup(r, idStr) : TRUE] = NoFeed]]

\* a transport failure: the request never reaches the service
Unreachable(r) == [ok |-> FALSE, feed |-> NoFeed, remote |-> r]

----------------------------------------------------------------------------
(* Record mapping                                                          *)

\* mutant: paused is sent as a fixed "false", like dont_process_whole_feed
PayloadPausedFixed(data) ==
    [ title |-> data.title.s,
      rss_source_url |-> data.rss_source_url.s,
      parent_dir_id |-> Itoa(data.parent_dir_id.i),
      delete_old_files |-> FormatBool(data.delete_old_files.b),
      dont_process_whole_feed |-> "false",
      keyword |-> data.keyword.s,
      unwanted_keywords |-> data.unwanted_keywords.s,
      paused |-> "false" ]

\* Create's url.Values payload
Payload(data) ==
    [ title |-> data.title.s,
      rss_source_url |-> data.rss_source_url.s,
      parent_dir_id |-> Itoa(data.parent_dir_id.i),
      delete_old_files |-> FormatBool(data.delete_old_files.b),
      dont_process_whole_feed |-> "false",
      keyword |-> data.keyword.s,
      unwanted_keywords |-> data.unwanted_keywords.s,
      paused |-> FormatBool(data.paused.b) ]

\* mutant: only the identifier is taken from the response
FromWireIdOnly(data, feed) == [data EXCEPT !.id = StringValue(Itoa(feed.id))]

\* data.ID = ...; data.Title = ...: every field overwritten from the response
FromWire(data, feed) ==
    [ id |-> StringValue(Itoa(feed.id)),
      title |-> StringValue(feed.title),
      rss_source_url |-> StringValue(feed.rss_source_url),
      parent_dir_id |-> Int64Value(feed.parent_dir_id),
      delete_old_files |-> BoolValue(feed.delete_old_files),
      keyword |-> StringValue(feed.keyword),
      unwanted_keywords |-> StringValue(feed.unwanted_keywords),
      paused |-> BoolValue(feed.paused) ]

----------------------------------------------------------------------------
(* Planning: what the host framework hands to the plan modifiers           *)

Titles == {"one", "two"}

\* what a practitioner declares for the optional attributes: all omitted,
\* all supplied, or a default spelled out
OptionalChoices ==
    { [parent_dir_id |-> NullVal("int64"), delete_old_files |-> NullVal("bool"),
       unwanted_keywords |-> NullVal("string"), paused |-> NullVal("bool")],
      [parent_dir_id |-> Int64Value(7), delete_old_files |-> BoolValue(TRUE),
       unwanted_keywords |-> StringValue("x"), paused |-> BoolValue(TRUE)],
      [parent_dir_id |-> Int64Value(0), delete_old_files |-> NullVal("bool"),
       unwanted_keywords |-> NullVal("string"), paused |-> NullVal("bool")] }

\* the configurations a practitioner declares: the required attributes and
\* a choice for the optional ones
Configs ==
    { [NullData EXCEPT !.title = StringValue(ti),
                       !.rss_source_url = StringValue("https://google.fr"),
                       !.keyword = StringValue("foo"),
                       !.parent_dir_id = o.parent_dir_id,
                       !.delete_old_files = o.delete_old_files,
                       !.unwanted_keywords = o.unwanted_keywords,
                       !.paused = o.paused] :
        ti \in Titles, o \in OptionalChoices }

\* the proposed new state: the configuration, with the prior state's value
\* for a computed attribute the configuration leaves null
Proposed(c, st) ==
    [a \in Attrs |->
        IF c[a].k = "null" /\ Schema[a].computed /\ st.present
        THEN st.data[a] ELSE c[a]]

\* when the proposal differs from the prior state, a computed attribute the
\* configuration leaves null is planned unknown (known after apply); this
\* happens before the attribute's plan modifiers run, and it is the unknown
\* that tfsdk.UseStateForUnknown replaces by the prior state's value
MarkComputedNilsAsUnknown(c, st, p) ==
    [a \in Attrs |->
        IF (~st.present \/ p # st.data) /\ Schema[a].computed /\ c[a].k = "null"
        THEN UnknownVal(Schema[a].t) ELSE p[a]]

\* tfsdk.UseStateForUnknown(): an unknown planned value takes the prior
\* state's value when there is one
UseStateForUnknown(planV, stateV) ==
    IF stateV.k = "null" \/ planV.k # "unknown" THEN planV ELSE stateV

\* the attribute's PlanModifiers, in schema order
RunPlanModifiers(a, planV, stateV) ==
    LET v1 == IF Schema[a].useState THEN UseStateForUnknown(planV, stateV)
              ELSE planV
        req == [AttributePlan |-> v1]
    IN  IF Schema[a].default.t = "none" THEN v1
        ELSE Modify(Schema[a].default, req, NewModifyResponse(req)).AttributePlan

\* the planned record for configuration c over prior state st
PlanData(c, st) ==
    LET m == MarkComputedNilsAsUnknown(c, st, Proposed(c, st))
    IN  [a \in Attrs |-> RunPlanModifiers(a, m[a], st.data[a])]

----------------------------------------------------------------------------
(* Handlers                                                                *)

Inputs == [decodeOk : BOOLEAN, reqOk : BOOLEAN, net : BOOLEAN]

Result(st, r, outcome, errs, calls) ==
    [state |-> st, remote |-> r, outcome |-> outcome, errs |-> errs,
     calls |-> calls]

\* mutant: Create persists the declared record, adding only the new id
CreateResultDeclared(cfg, st, r, in) ==
    IF ~in.decodeOk THEN Result(st, r, "decode", 1, 0)
    ELSE IF ~in.reqOk THEN Result(st, r, "request", 1, 0)
    ELSE LET resp == IF in.net THEN ServerCreate(r, Payload(cfg.data))
                     ELSE Unreachable(r)
         IN  IF ~resp.ok THEN Result(st, resp.remote, "remote", 1, 1)
             ELSE Result(Present(FromWireIdOnly(cfg.data, resp.feed)),
                         resp.remote, "ok", 0, 1)

\* rssFeedResource.Create
CreateResult(cfg, st, r, in) ==
    IF ~in.decodeOk THEN Result(st, r, "decode", 1, 0)
    ELSE IF ~in.reqOk THEN Result(st, r, "request", 1, 0)
    ELSE LET resp == IF in.net THEN ServerCreate(r, Payload(cfg.data))
                     ELSE Unreachable(r)
         IN  IF ~resp.ok THEN Result(st, resp.remote, "remote", 1, 1)
             ELSE Result(Present(FromWire(cfg.data, resp.feed)), resp.remote,
                         "ok", 0, 1)

\* mutant: a failed remote call drops the resource from the tracked state
ReadResultDropsOnError(st, r, in) ==
    IF ~in.decodeOk THEN Result(st, r, "decode", 1, 0)
    ELSE IF ~in.reqOk THEN Result(st, r, "request", 1, 0)
    ELSE LET resp == IF in.net THEN ServerGet(r, st.data.id.s)
                     ELSE Unreachable(r)
         IN  IF ~resp.ok THEN Result(Absent, resp.remote, "remote", 1, 1)
             ELSE Result(Present(FromWire(st.data, resp.feed)), resp.remote,
                         "ok", 0, 1)

\* rssFeedResource.Read
ReadResult(st, r, in) ==
    IF ~in.decodeOk THEN Result(st, r, "decode", 1, 0)
    ELSE IF ~in.reqOk THEN Result(st, r, "request", 1, 0)
    ELSE LET resp == IF in.net THEN ServerGet(r, st.data.id.s)
                     ELSE Unreachable(r)
         IN  IF ~resp.ok THEN Result(st, resp.remote, "remote", 1, 1)
             ELSE Result(Present(FromWire(st.data, resp.feed)), resp.remote,
                         "ok", 0, 1)

\* mutant: Update keeps the prior state's computed identifier
UpdateResultKeepsId(pl, st, r, in) ==
    IF ~in.decodeOk THEN Result(st, r, "decode", 1, 0)
    ELSE Result(Present([pl.data EXCEPT !.id = st.data.id]), r, "ok", 0, 0)

\* rssFeedResource.Update
UpdateResult(pl, st, r, in) ==
    IF ~in.decodeOk THEN Result(st, r, "decode", 1, 0)
    ELSE Result(Present(pl.data), r, "ok", 0, 0)

\* mutant: the error of the remote call is dropped
DeleteResultIgnoresError(st, r, in) ==
    IF ~in.decodeOk THEN Result(st, r, "decode", 1, 0)
    ELSE IF ~in.reqOk THEN Result(st, r, "request", 1, 0)
    ELSE LET resp == IF in.net THEN ServerDelete(r, st.data.id.s)
                     ELSE Unreachable(r)
         IN  Result(st, resp.remote, "ok", 0, 1)

\* rssFeedResource.Delete
DeleteResult(st, r, in) ==
    IF ~in.decodeOk THEN Result(st, r, "decode", 1, 0)
    ELSE IF ~in.reqOk THEN Result(st, r, "request", 1, 0)
    ELSE LET resp == IF in.net THEN ServerDelete(r, st.data.id.s)
                     ELSE Unreachable(r)
         IN  IF ~resp.ok THEN Result(st, resp.remote, "remote", 1, 1)
             ELSE Result(st, resp.remote, "ok", 0, 1)

\* rssFeedResource.ImportState: tfsdk.ResourceImportStatePassthroughID
ImportResult(idStr) == Present([NullData EXCEPT !.id = StringValue(idStr)])

----------------------------------------------------------------------------
(* The resource's life cycle, one handler invocation at a time             *)

NoUpdate == [active |-> FALSE, before |-> Absent]

AllOk == [decodeOk |-> TRUE, reqOk |-> TRUE, net |-> TRUE]

\* no request handed to client.Do
NoPost == [posts |-> 0, body |-> Payload(NullData)]

\* the requests Create hands to client.Do: one POST to /v2/rss/create with
\* the encoded payload, once the configuration is decoded and the request
\* is built
CreatePost(cfg, in) ==
    IF in.decodeOk /\ in.reqOk
    THEN [posts |-> 1, body |-> Payload(cfg.data)]
    ELSE NoPost

\* the record of a handler invocation: its diagnostics, the remote calls it
\* made, the tracked state it started from, whether the service could be
\* reached, whether it directly follows a successful Create (fresh), the
\* title-only update it belongs to (upd), and the POST a Create sent
Last(op, res, pre, r, upd, in, fresh) ==
    [op |-> op, outcome |-> res.outcome, errs |-> res.errs, calls |-> res.calls,
     pre |-> pre, remoteChanged |-> (res.remote # r), upd |-> upd,
     reachable |-> (in.decodeOk /\ in.reqOk /\ in.net), fresh |-> fresh,
     sent |-> NoPost]

EmptyRemote == [feeds |-> [f \in FeedIds |-> NoFeed], next |-> 1]

FeedInit ==
    /\ remote = EmptyRemote
    /\ config = Absent
    /\ plan = Absent
    /\ state = Absent
    /\ last = Last("none", Result(Absent, EmptyRemote, "ok", 0, 0), Absent,
                   EmptyRemote, NoUpdate, AllOk, FALSE)

\* the feeds of the service that the tracked identifier names
Tracked == Lookup(remote, state.data.id.s)

\* the record holds, field for field, what the service stores for the feed
WireEquals(d, feed) ==
    /\ \A a \in Attrs : d[a].k = "known"
    /\ d.id.s = Itoa(feed.id)
    /\ d.title.s = feed.title
    /\ d.rss_source_url.s = feed.rss_source_url
    /\ d.parent_dir_id.i = feed.parent_dir_id
    /\ d.delete_old_files.b = feed.delete_old_files
    /\ d.keyword.s = feed.keyword
    /\ d.unwanted_keywords.s = feed.unwanted_keywords
    /\ d.paused.b = feed.paused

\* c changes only the title of the configuration applied before, and the
\* tracked state is that of a created feed as the service has it
OnlyTitleChanged(c) ==
    /\ config.present /\ state.present
    /\ Tracked # {}
    /\ \A f \in Tracked : WireEquals(state.data, remote.feeds[f])
    /\ c.title # config.data.title
    /\ c = [config.data EXCEPT !.title = c.title]

\* the host plans configuration c against the tracked state
PlanResourceChange(c) ==
    /\ prov.client.set
    /\ config' = Present(c)
    /\ plan' = Present(PlanData(c, state))
    /\ last' = Last("Plan", Result(state, remote, "ok", 0, 0), state, remote,
                    IF OnlyTitleChanged(c)
                    THEN [active |-> TRUE, before |-> state] ELSE NoUpdate,
                    AllOk, FALSE)
    /\ UNCHANGED <<remote, state>>

\* the host applies a plan for a resource that has no tracked state
Create(in) ==
    /\ prov.client.set
    /\ plan.present /\ ~state.present
    /\ in.net => remote.next <= MaxFeeds
    /\ LET res == CreateResult(config, state, remote, in)
       IN  /\ state' = res.state
           /\ remote' = res.remote
           /\ last' = [Last("Create", res, state, remote, NoUpdate, in, FALSE)
                          EXCEPT !.sent = CreatePost(config, in)]
    /\ plan' = Absent
    /\ UNCHANGED config

\* the host refreshes the tracked state
Read(in) ==
    /\ prov.client.set
    /\ state.present
    /\ LET res == ReadResult(state, remote, in)
       IN  /\ state' = res.state
           /\ remote' = res.remote
           /\ last' = Last("Read", res, state, remote,
                           IF last.op = "Update" /\ last.outcome = "ok"
                           THEN last.upd ELSE NoUpdate,
                           in, last.op = "Create" /\ last.outcome = "ok")
    /\ plan' = Absent
    /\ UNCHANGED config

\* the host applies a plan that differs from the tracked state
Update(in) ==
    /\ prov.client.set
    /\ plan.present /\ state.present
    /\ plan.data # state.data
    /\ LET res == UpdateResult(plan, state, remote, in)
       IN  /\ state' = res.state
           /\ remote' = res.remote
           /\ last' = Last("Update", res, state, remote,
                           IF res.outcome = "ok" THEN last.upd ELSE NoUpdate,
                           [in EXCEPT !.reqOk = TRUE, !.net = TRUE], FALSE)
    /\ plan' = Absent
    /\ UNCHANGED config

\* the host destroys the resource; it drops the tracked state itself when
\* Delete reports no error
Delete(in) ==
    /\ prov.client.set
    /\ state.present
    /\ LET res == DeleteResult(state, remote, in)
       IN  /\ state' = IF res.errs = 0 THEN Absent ELSE res.state
           /\ remote' = res.remote
           /\ last' = Last("Delete", res, state, remote, NoUpdate, in, FALSE)
    /\ plan' = Absent
    /\ UNCHANGED config

\* the identifiers a practitioner imports: of feeds that exist, existed or
\* never existed
ImportIds == {Itoa(n) : n \in 1..(MaxFeeds + 1)}

\* the host imports an identifier into an empty tracked state
ImportState(idStr) ==
    /\ prov.client.set
    /\ ~state.present
    /\ state' = ImportResult(idStr)
    /\ last' = Last("Import", Result(state, remote, "ok", 0, 0), state, remote,
                    NoUpdate, AllOk, FALSE)
    /\ plan' = Absent
    /\ UNCHANGED <<remote, config>>

\* the practitioner starts from an empty tracked state (the import test
\* step imports into a fresh state while the feed stays on the service)
Forget ==
    /\ state.present
    /\ state' = Absent
    /\ plan' = Absent
    /\ last' = Last("Forget", Result(state, remote, "ok", 0, 0), state, remote,
                    NoUpdate, AllOk, FALSE)
    /\ UNCHANGED <<remote, config>>

----------------------------------------------------------------------------
(* Specifications                                                          *)

\* a session whose Configure succeeded with the environment's token
ConfiguredRequest ==
    [oauth_token |-> NullVal("string"), env |-> "tok", decodeOk |-> TRUE,
     accepts |-> TRUE, done |-> TRUE]

ConfiguredProvider ==
    [client |-> [set |-> TRUE, token |-> Raw("tok")], configured |-> TRUE]

ConfiguredResponse == [errs |-> 0, validateCalls |-> 1, validated |-> 1]

IdleModifier ==
    [m |-> In64Default(0), AttributePlan |-> NullVal("int64"), done |-> TRUE]

IdleMod ==
    /\ modReq = IdleModifier
    /\ modResp = Modify(IdleModifier.m, IdleModifier, NewModifyResponse(IdleModifier))

\* the resource handlers, in a configured session
Init ==
    /\ IdleMod
    /\ provReq = ConfiguredRequest
    /\ prov = ConfiguredProvider
    /\ provResp = ConfiguredResponse
    /\ FeedInit

Next ==
    \/ \E c \in Configs : PlanResourceChange(c) /\ UNCHANGED <<modVars, provVars>>
    \/ \E in \in Inputs : Create(in) /\ UNCHANGED <<modVars, provVars>>
    \/ \E in \in Inputs : Read(in) /\ UNCHANGED <<modVars, provVars>>
    \/ \E in \in Inputs : Update(in) /\ UNCHANGED <<modVars, provVars>>
    \/ \E in \in Inputs : Delete(in) /\ UNCHANGED <<modVars, provVars>>
    \/ \E i \in ImportIds : ImportState(i) /\ UNCHANGED <<modVars, provVars>>
    \/ Forget /\ UNCHANGED <<modVars, provVars>>

Spec == Init /\ [][Next]_vars

\* a default plan modifier applied to every planned value
InitModifier ==
    /\ ModInit
    /\ provReq = ConfiguredRequest
    /\ prov = ConfiguredProvider
    /\ provResp = ConfiguredResponse
    /\ FeedInit

NextModifier ==
    \/ RunModify /\ UNCHANGED <<provVars, feedVars>>
    \/ NextAttribute /\ UNCHANGED <<provVars, feedVars>>

SpecModifier == InitModifier /\ [][NextModifier]_vars

\* the provider's Configure, session after session
InitProvider ==
    /\ IdleMod
    /\ ProvInit
    /\ FeedInit

NextProvider ==
    \/ Configure /\ UNCHANGED <<modVars, feedVars>>
    \/ NewSession /\ UNCHANGED <<modVars, feedVars>>

SpecProvider == InitProvider /\ [][NextProvider]_vars

----------------------------------------------------------------------------
(* Properties                                                              *)

\* C2: once a default modifier has run on a planned value, the response's
\* planned value is the configured default exactly when the incoming value
\* was null; any other value of the modifier's type (unknown, or supplied,
\* equal to the default or not) is passed through unchanged without
\* diagnostics; a value that cannot be decoded is passed through unchanged
\* with an error diagnostic.
C2_DefaultOnlyWhenNull ==
    modReq.done =>
        LET in == modReq.AttributePlan
        IN  IF in.t # modReq.m.t
            THEN modResp.errs >= 1 /\ modResp.AttributePlan = in
            ELSE /\ modResp.errs = 0
                 /\ in.k = "null" => modResp.AttributePlan = modReq.m.Default
                 /\ in.k # "null" => modResp.AttributePlan = in

\* the int64 modifier with default 1 has replaced a null planned value
C2_Witness ==
    /\ modReq.done
    /\ modReq.m = In64Default(1)
    /\ modReq.AttributePlan = NullVal("int64")
    /\ modResp.AttributePlan = Int64Value(1)

\* the token the practitioner means: the declared one, or the environment's
\* when none is declared
EffectiveToken(req) ==
    IF req.oauth_token.k = "null" THEN req.env ELSE req.oauth_token.s

\* C10: after Configure has decoded its configuration, an empty token
\* (declared, or from the environment when none is declared) gives an error
\* diagnostic, no validation call and an unconfigured provider; and the
\* provider is configured, with its client set, only after exactly one
\* successful token validation.
C10_EmptyTokenStops ==
    (provReq.done /\ provReq.decodeOk /\ provReq.oauth_token.k # "unknown") =>
        /\ EffectiveToken(provReq) = "" =>
              /\ provResp.errs >= 1
              /\ provResp.validateCalls = 0
              /\ ~prov.configured
        /\ prov.configured =>
              /\ prov.client.set
              /\ provResp.validateCalls = 1
              /\ provResp.validated = 1

\* the configuration gives only title, rss_source_url and keyword
OnlyRequired(d) == \A a \in OptAttrs : d[a].k = "null"

\* C1: for a configuration that omits every optional attribute, each of
\* them equals its declared default in the record planned for the create,
\* and in the tracked state a successful Create persists.
C1_OmittedGetsDefault ==
    /\ (last.op = "Plan" /\ ~state.present /\ OnlyRequired(config.data)) =>
          \A a \in OptAttrs : plan.data[a] = DefaultOf(a)
    /\ (last.op = "Create" /\ last.outcome = "ok" /\ OnlyRequired(config.data)) =>
          \A a \in OptAttrs : state.data[a] = DefaultOf(a)

\* C3: the tracked record a successful Create persists is the service's
\* record of the new feed, and a successful Read directly after it leaves
\* the tracked record equal in every field to the one Create persisted.
C3_CreateReadRoundTrip ==
    /\ (last.op = "Create" /\ last.outcome = "ok") =>
          /\ state.present
          /\ Tracked # {}
          /\ \A f \in Tracked : WireEquals(state.data, remote.feeds[f])
    /\ (last.op = "Read" /\ last.outcome = "ok" /\ last.fresh) =>
          /\ state = last.pre
          /\ Tracked # {}
          /\ \A f \in Tracked : WireEquals(state.data, remote.feeds[f])

\* Create persisted the service's record, which differs from the declared
\* input, and Read has returned it again
C3_Witness ==
    /\ last.op = "Read" /\ last.outcome = "ok" /\ last.fresh
    /\ OnlyRequired(config.data)
    /\ state.data.paused = BoolValue(FALSE)
    /\ state.data.id = StringValue("1")

\* the tracked state was seeded by ImportState: the identifier and nothing else
Imported(st) == st.present /\ st = ImportResult(st.data.id.s)

\* C4: a successful Read of an imported identifier leaves the tracked
\* record that Create followed by Read leaves for the same remote feed,
\* whatever configuration the Create was given.
C4_ImportReadEqualsCreateRead ==
    (last.op = "Read" /\ last.outcome = "ok" /\ Imported(last.pre)) =>
        /\ Tracked # {}
        /\ \A f \in Tracked : \A c \in Configs :
              LET created == Present(FromWire(c, remote.feeds[f]))
              IN  state = ReadResult(created, remote, AllOk).state

\* an imported identifier of a feed created with every optional attribute
\* supplied has been read back
C4_Witness ==
    /\ last.op = "Read" /\ last.outcome = "ok" /\ Imported(last.pre)
    /\ state.data.parent_dir_id = Int64Value(7)
    /\ state.data.paused = BoolValue(TRUE)

\* C5: Update sends nothing to the service and leaves it as it was; when
\* it succeeds the tracked state is the planned record, field for field,
\* and when decoding the plan fails the tracked state is not written.
C5_UpdateWritesPlanVerbatim ==
    [][(last'.op = "Update" /\ plan.present /\ ~plan'.present) =>
          /\ remote' = remote
          /\ last'.calls = 0
          /\ last'.outcome = "ok" => state' = Present(plan.data)
          /\ last'.outcome # "ok" => (state' = state /\ last'.errs >= 1)]_vars

\* an Update has changed the tracked title without touching the service
C5_Witness ==
    /\ last.op = "Update" /\ last.outcome = "ok"
    /\ state.data.title # last.pre.data.title
    /\ ~last.remoteChanged

\* C6: when a configuration that changes only the title is applied to a
\* created feed and the tracked state is then read (the service being
\* reachable), the tracked state has the new title, its id still set, and
\* every other attribute as before the update.
C6_TitleUpdateSurvivesRead ==
    (last.op = "Read" /\ last.upd.active /\ last.reachable) =>
        /\ last.outcome = "ok"
        /\ state.data.title = config.data.title
        /\ state.data.id.k = "known"
        /\ \A a \in Attrs \ {"id", "title"} :
              state.data[a] = last.upd.before.data[a]

\* C7: a Delete that reaches the service with an identifier no feed of the
\* service has reports an error diagnostic.
C7_DeleteMissingReportsError ==
    (last.op = "Delete" /\ ~last.remoteChanged
        /\ Lookup(remote, last.pre.data.id.s) = {}) =>
        last.errs >= 1 /\ last.outcome # "ok"

\* the service was reached and no longer had the feed, which an earlier
\* Delete had removed
C7_Witness ==
    /\ last.op = "Delete" /\ last.reachable /\ last.outcome = "remote"
    /\ Lookup(remote, last.pre.data.id.s) = {}
    /\ last.pre.data.id.s = "1" /\ remote.next > 1
    /\ state = last.pre

\* C8: in Create, Read and Delete, a failure to build the request or a
\* failed remote call adds exactly one error diagnostic, makes no second
\* call and leaves the tracked state as it was; a failure to decode the
\* configuration or state stops the handler before any remote call.
C8_FailureWritesNothing ==
    (last.op \in {"Create", "Read", "Delete"}) =>
        /\ last.outcome = "request" =>
              last.errs = 1 /\ last.calls = 0 /\ state = last.pre
        /\ last.outcome = "remote" =>
              last.errs = 1 /\ last.calls = 1 /\ state = last.pre
        /\ last.outcome = "decode" =>
              /\ last.errs >= 1 /\ last.calls = 0
              /\ ~last.remoteChanged /\ state = last.pre

\* a Read of a tracked feed has failed at the service
C8_Witness ==
    /\ last.op = "Read" /\ last.outcome = "remote" /\ last.reachable
    /\ state.present /\ state.data.title.k = "known"

\* C9: once the tracked state holds the identifier the service assigned to
\* a created feed, a successful Read or Update leaves that identifier as it
\* was.
C9_IdImmutable ==
    (last.op \in {"Read", "Update"} /\ last.outcome = "ok"
        /\ last.pre.present /\ last.pre.data.id.k = "known"
        /\ Lookup(remote, last.pre.data.id.s) # {}) =>
        state.data.id = last.pre.data.id

\* the value an optional attribute resolves to: the declared one when the
\* configuration supplies it, its declared default when it is omitted
Resolved(a) ==
    IF config.data[a].k = "null" THEN DefaultOf(a) ELSE config.data[a]

\* a boolean form field in lowercase
LowerBool(v) == IF v.b THEN "true" ELSE "false"

\* C11: a Create that gets as far as calling the service sends exactly one
\* POST, whose form carries title, rss_source_url and keyword as declared,
\* each optional attribute's resolved value (parent_dir_id as a decimal
\* string, the booleans as lowercase "true"/"false"), and
\* dont_process_whole_feed "false"; a Create that stops earlier sends none.
C11_PostCarriesResolvedValues ==
    (last.op = "Create") =>
        /\ last.sent.posts = last.calls
        /\ last.sent.posts <= 1
        /\ last.sent.posts = 1 =>
              /\ last.sent.body.title = config.data.title.s
              /\ last.sent.body.rss_source_url = config.data.rss_source_url.s
              /\ last.sent.body.keyword = config.data.keyword.s
              /\ last.sent.body.parent_dir_id = Itoa(Resolved("parent_dir_id").i)
              /\ last.sent.body.delete_old_files
                    = LowerBool(Resolved("delete_old_files"))
              /\ last.sent.body.unwanted_keywords
                    = Resolved("unwanted_keywords").s
              /\ last.sent.body.paused = LowerBool(Resolved("paused"))
              /\ last.sent.body.dont_process_whole_feed = "false"

\* a Create has posted a configuration that supplies every optional
\* attribute with a value other than its default
C11_Witness ==
    /\ last.op = "Create" /\ last.outcome = "ok" /\ last.sent.posts = 1
    /\ \A a \in OptAttrs : config.data[a].k = "known" /\ config.data[a] # DefaultOf(a)
    /\ last.sent.body.parent_dir_id = "7"
    /\ last.sent.body.delete_old_files = "true"
    /\ last.sent.body.unwanted_keywords = "x"
    /\ last.sent.body.paused = "true"

\* a Create has posted a configuration that omits every optional attribute
C11_WitnessOmitted ==
    /\ last.op = "Create" /\ last.sent.posts = 1
    /\ OnlyRequired(config.data)
    /\ last.sent.body.parent_dir_id = "0"
    /\ last.sent.body.paused = "false"

====
